---------------------------- MODULE Spec2Model ----------------------------
(***************************************************************************)
(* State-machine model of src/src/App.tsx: the React component App, its    *)
(* state hooks, its event handlers and the asynchronous continuation of    *)
(* extractNewsData.                                                        *)
(*                                                                         *)
(* The variables hold the COMMITTED state of the component (what the last  *)
(* successful render saw).  An event handler and the render it schedules   *)
(* are one step.  JavaScript values are tagged records: Str(s), Null and   *)
(* Undefined.  A URL text is a sequence of tokens so that the hostname     *)
(* parse of `new URL(url).hostname` is computed, not assumed.  The Bengali *)
(* string literals of the source are written as ASCII stand-ins, one       *)
(* distinct stand-in per distinct literal.                                 *)
(***************************************************************************)
EXTENDS Naturals, Sequences, FiniteSets

VARIABLES
    url,              \* useState('')                           App.tsx:42
    loading,          \* useState(false)                        App.tsx:43
    error,            \* useState<string | null>(null)          App.tsx:44
    newsData,         \* useState<NewsData>({...})              App.tsx:45-51
    selectedGradient, \* useState(GRADIENTS[0])                 App.tsx:52
    fontSize,         \* useState(24)                           App.tsx:53
    pending,          \* generateContent promises not yet continued (75-93)
    reads,            \* FileReaders whose onloadend has not fired (60-64)
    clock,            \* the day `new Date()` reports
    heroSrc,          \* the src attribute of the hero <img> in the DOM (303-311)
    mounted,          \* FALSE once a render has thrown and React unmounted App
    lastEvent         \* the last event when it is one the component state does
                      \* not show: a click on generate, a file dialog closed
                      \* without a file, an export, an <img> error; else "step"

vars == <<url, loading, error, newsData, selectedGradient, fontSize,
          pending, reads, clock, heroSrc, mounted, lastEvent>>

---------------------------------------------------------------------------
(* Bounds of the model *)

\* days the clock can reach
MaxDay == 2
\* generateContent promises the model lets be outstanding at once
MaxPending == 2
\* FileReaders the model lets be outstanding at once
MaxReads == 1

---------------------------------------------------------------------------
(* JavaScript values *)

Str(s) == [t |-> "string", v |-> s]
Null == [t |-> "null", v |-> ""]
Undefined == [t |-> "undefined", v |-> ""]

IsString(x) == x.t = "string"
\* JavaScript truthiness of a string-or-null-or-undefined value
Truthy(x) == x.t = "string" /\ x.v # ""
\* a || b
OrElse(a, b) == IF Truthy(a) THEN a ELSE b

---------------------------------------------------------------------------
(* Literals of the source *)

TitleDefault == Str("title-default")              \* App.tsx:46
TitleNotFound == Str("title-not-found")           \* App.tsx:98
PlaceholderImage == Str("picsum/seed/news")       \* App.tsx:47 and 99
ErrorImage == Str("picsum/seed/error")            \* App.tsx:309
SourceDefault == Str("news.example.com")          \* App.tsx:50
ExtractError == Str("extract-error-message")      \* App.tsx:105
GRADIENTS == <<"blue-purple", "red-dark", "green-teal", "orange-red", "dark-gray">>
FontSizeDefault == 24

\* new Date().toLocaleDateString('bn-BD', {...}) on day d: one text per day
BnDates == <<"bn-day-1", "bn-day-2", "bn-day-3", "bn-day-4">>
toLocaleDateString(d) == Str(BnDates[d])

---------------------------------------------------------------------------
(* new URL(url).hostname over token sequences *)

Schemes == {"https:"}
GoodUrl == <<"https:", "//", "news.bd", "/", "a">>
BadUrl == <<"news.bd", "/", "a">>
Urls == {<<>>, GoodUrl, BadUrl}

\* the tokens after the scheme and an optional "//"
Authority(u) ==
    LET rest == Tail(u)
    IN IF rest # <<>> /\ Head(rest) = "//" THEN Tail(rest) ELSE rest

\* new URL(u) does not throw: u has a scheme and a non-empty host
URLParses(u) ==
    /\ u # <<>>
    /\ Head(u) \in Schemes
    /\ Authority(u) # <<>>
    /\ Head(Authority(u)) \notin {"/", "//"}

hostname(u) == Str(Head(Authority(u)))

---------------------------------------------------------------------------
(* The provider's answer to one generateContent call *)

Fields4 == {"title", "imageUrl", "date", "source"}

RespValues == [title |-> Str("resp-title"), imageUrl |-> Str("resp-image"),
               date |-> Str("resp-date"), source |-> Str("resp-source")]

\* a JSON object that carries exactly the fields of S
ObjWith(S) == [f \in Fields4 |-> IF f \in S THEN RespValues[f] ELSE Undefined]
\* a JSON object that carries every field, field e as the empty string
ObjEmptyAt(e) == [f \in Fields4 |-> IF f = e THEN Str("") ELSE RespValues[f]]

\* every field present; one field missing; one field empty; no field at all
Objects ==
    {ObjWith(Fields4), ObjWith({})}
        \cup {ObjWith(Fields4 \ {f}) : f \in Fields4}
        \cup {ObjEmptyAt(e) : e \in Fields4}

\* kind: "none" (not settled), "rejected" (network error, provider error,
\* missing credential), "text" (fulfilled; form says what response.text is)
NoReply == [kind |-> "none", form |-> "-", obj |-> ObjWith({})]
Rejected == [kind |-> "rejected", form |-> "-", obj |-> ObjWith({})]
TextEmpty == [kind |-> "text", form |-> "empty", obj |-> ObjWith({})]
TextMalformed == [kind |-> "text", form |-> "malformed", obj |-> ObjWith({})]
TextObject(o) == [kind |-> "text", form |-> "object", obj |-> o]

Replies == {Rejected, TextEmpty, TextMalformed} \cup {TextObject(o) : o \in Objects}

\* response.text || '{}'                                     App.tsx:95
TextOrEmptyObject(r) == IF r.form = "empty" THEN TextObject(ObjWith({})) ELSE r

\* JSON.parse(...) throws on text that is not JSON           App.tsx:95
JSONParseThrows(r) == TextOrEmptyObject(r).form = "malformed"
JSONParse(r) == TextOrEmptyObject(r).obj

\* mutant: JSON.parse moved out of the try block
ExtractionCaughtRejectOnly(r) == r.kind = "rejected"

\* control reaches the catch block                           App.tsx:103
ExtractionCaught(r) == r.kind = "rejected" \/ JSONParseThrows(r)

\* the updater passed to setNewsData                         App.tsx:96-102
\* `new URL(url)` is evaluated only when data.source is falsy
UpdaterThrows(data, u) == ~Truthy(data.source) /\ ~URLParses(u)

\* mutant: the updater builds the object without `...prev`
UpdaterNoSpread(prev, data, u, day) ==
    [title |-> OrElse(data.title, TitleNotFound),
     imageUrl |-> OrElse(data.imageUrl, PlaceholderImage),
     logoUrl |-> Str(""),
     date |-> OrElse(data.date, toLocaleDateString(day)),
     source |-> OrElse(data.source, hostname(u))]

Updater(prev, data, u, day) ==
    [prev EXCEPT !.title = OrElse(data.title, TitleNotFound),
                 !.imageUrl = OrElse(data.imageUrl, PlaceholderImage),
                 !.date = OrElse(data.date, toLocaleDateString(day)),
                 !.source = OrElse(data.source, hostname(u))]

---------------------------------------------------------------------------
(* Rendering *)

\* React writes the src attribute only when the prop changed  App.tsx:304
RenderHero(next) ==
    heroSrc' = IF next.imageUrl # newsData.imageUrl THEN next.imageUrl ELSE heroSrc

\* what the logo badge shows                                  App.tsx:292-296
LogoGlyph == [kind |-> "glyph", src |-> Str("")]
LogoShown ==
    IF Truthy(newsData.logoUrl)
    THEN [kind |-> "img", src |-> newsData.logoUrl]
    ELSE LogoGlyph

\* mutant: disabled={!url}
generateDisabledUrlOnly == url = <<>>

\* disabled={loading || !url}                                 App.tsx:160
generateDisabled == loading \/ url = <<>>

RemoveAt(s, i) == SubSeq(s, 1, i - 1) \o SubSeq(s, i + 1, Len(s))

---------------------------------------------------------------------------
(* Initial state: App.tsx:42-53 *)

Init ==
    /\ clock = 1
    /\ url = <<>>
    /\ loading = FALSE
    /\ error = Null
    /\ newsData = [title |-> TitleDefault, imageUrl |-> PlaceholderImage,
                   logoUrl |-> Str(""), date |-> toLocaleDateString(clock),
                   source |-> SourceDefault]
    /\ selectedGradient = GRADIENTS[1]
    /\ fontSize = FontSizeDefault
    /\ pending = <<>>
    /\ reads = <<>>
    /\ heroSrc = PlaceholderImage
    /\ mounted = TRUE
    /\ lastEvent = "mount"

---------------------------------------------------------------------------
(* Event handlers *)

\* onChange={(e) => setUrl(e.target.value)}                   App.tsx:154
SetUrl(u) ==
    /\ mounted
    /\ u # url
    /\ url' = u
    /\ lastEvent' = "step"
    /\ UNCHANGED <<loading, error, newsData, selectedGradient, fontSize,
                   pending, reads, clock, heroSrc, mounted>>

\* mutant: setError(null) is missing
extractNewsDataKeepsError ==
    IF url = <<>>
    THEN /\ lastEvent' = "generateClick"
         /\ UNCHANGED <<url, loading, error, newsData, selectedGradient, fontSize,
                        pending, reads, clock, heroSrc, mounted>>
    ELSE /\ Len(pending) < MaxPending
         /\ loading' = TRUE
         /\ pending' = Append(pending, [url |-> url, reply |-> NoReply])
         /\ lastEvent' = "generateClick"
         /\ UNCHANGED <<url, error, newsData, selectedGradient, fontSize,
                        reads, clock, heroSrc, mounted>>

\* extractNewsData up to the await                            App.tsx:68-75
extractNewsData ==
    IF url = <<>>
    THEN /\ lastEvent' = "generateClick"
         /\ UNCHANGED <<url, loading, error, newsData, selectedGradient, fontSize,
                        pending, reads, clock, heroSrc, mounted>>
    ELSE /\ Len(pending) < MaxPending
         /\ loading' = TRUE
         /\ error' = Null
         /\ pending' = Append(pending, [url |-> url, reply |-> NoReply])
         /\ lastEvent' = "generateClick"
         /\ UNCHANGED <<url, newsData, selectedGradient, fontSize,
                        reads, clock, heroSrc, mounted>>

\* mutant: the button is disabled by loading alone and the handler has no
\* `if (!url) return`
ClickGenerateNoUrlCheck ==
    /\ mounted
    /\ lastEvent' = "generateClick"
    /\ IF loading
       THEN UNCHANGED <<url, loading, error, newsData, selectedGradient, fontSize,
                        pending, reads, clock, heroSrc, mounted>>
       ELSE /\ Len(pending) < MaxPending
            /\ loading' = TRUE
            /\ error' = Null
            /\ pending' = Append(pending, [url |-> url, reply |-> NoReply])
            /\ UNCHANGED <<url, newsData, selectedGradient, fontSize,
                           reads, clock, heroSrc, mounted>>

\* a click on the generate button                             App.tsx:158-165
ClickGenerate ==
    /\ mounted
    /\ IF generateDisabled
       THEN /\ lastEvent' = "generateClick"
            /\ UNCHANGED <<url, loading, error, newsData, selectedGradient, fontSize,
                           pending, reads, clock, heroSrc, mounted>>
       ELSE extractNewsData

\* the generateContent promise settles                        App.tsx:75
ProviderSettles(i, r) ==
    /\ mounted
    /\ pending[i].reply = NoReply
    /\ pending' = [pending EXCEPT ![i].reply = r]
    /\ lastEvent' = "step"
    /\ UNCHANGED <<url, loading, error, newsData, selectedGradient, fontSize,
                   reads, clock, heroSrc, mounted>>

\* extractNewsData after the await, and the render it schedules  App.tsx:95-108
ContinueExtraction(i) ==
    LET r == pending[i].reply
        u == pending[i].url
    IN /\ mounted
       /\ r # NoReply
       /\ pending' = RemoveAt(pending, i)
       /\ IF ExtractionCaught(r)
          THEN \* catch: setError(...); finally: setLoading(false)
               /\ error' = ExtractError
               /\ loading' = FALSE
               /\ lastEvent' = "step"
               /\ UNCHANGED <<newsData, heroSrc, mounted>>
          ELSE IF UpdaterThrows(JSONParse(r), u)
          THEN \* the updater runs in the render and throws there, outside
               \* the try block: nothing of this batch is committed
               /\ mounted' = FALSE
               /\ lastEvent' = "step"
               /\ UNCHANGED <<newsData, heroSrc, error, loading>>
          ELSE /\ newsData' = Updater(newsData, JSONParse(r), u, clock)
               /\ RenderHero(newsData')
               /\ loading' = FALSE
               /\ lastEvent' = "step"
               /\ UNCHANGED <<error, mounted>>
       /\ UNCHANGED <<url, selectedGradient, fontSize, reads, clock>>

ManualFields == {"title", "date", "source"}
EditTexts == {"edited"}

\* onChange={(e) => setNewsData({...newsData, [f]: e.target.value})}
\*                                                 App.tsx:211, 233, 245
ManualEdit(f, text) ==
    /\ mounted
    /\ newsData[f] # Str(text)
    /\ newsData' = [newsData EXCEPT ![f] = Str(text)]
    /\ lastEvent' = "step"
    /\ UNCHANGED <<url, loading, error, selectedGradient, fontSize,
                   pending, reads, clock, heroSrc, mounted>>

FileFields == {"imageUrl", "logoUrl"}
DataUri == Str("data:image")
\* reader.result at loadend: a data URI, or null when the read failed
ReadResults == {DataUri, Null}

\* handleFileChange                                           App.tsx:57-66
handleFileChange(field, hasFile) ==
    /\ mounted
    /\ IF hasFile
       THEN /\ Len(reads) < MaxReads
            /\ reads' = Append(reads, field)
            /\ lastEvent' = "step"
       ELSE /\ reads' = reads
            /\ lastEvent' = "noFile"
    /\ UNCHANGED <<url, loading, error, newsData, selectedGradient, fontSize,
                   pending, clock, heroSrc, mounted>>

\* reader.onloadend                                           App.tsx:61-63
onloadend(i, result) ==
    /\ mounted
    /\ i \in 1..Len(reads)
    /\ newsData' = [newsData EXCEPT ![reads[i]] = result]
    /\ RenderHero(newsData')
    /\ reads' = RemoveAt(reads, i)
    /\ lastEvent' = "step"
    /\ UNCHANGED <<url, loading, error, selectedGradient, fontSize,
                   pending, clock, mounted>>

\* midnight passes
Tick ==
    /\ mounted
    /\ clock < MaxDay
    /\ clock' = clock + 1
    /\ lastEvent' = "step"
    /\ UNCHANGED <<url, loading, error, newsData, selectedGradient, fontSize,
                   pending, reads, heroSrc, mounted>>

\* onClick={() => setSelectedGradient(grad)}                  App.tsx:257
SelectGradient(g) ==
    /\ mounted
    /\ selectedGradient' = GRADIENTS[g]
    /\ lastEvent' = "step"
    /\ UNCHANGED <<url, loading, error, newsData, fontSize,
                   pending, reads, clock, heroSrc, mounted>>

\* Number(e.target.value) of the number input                 App.tsx:223
FontInputs == {0, 18}

SetFontSize(n) ==
    /\ mounted
    /\ n # fontSize
    /\ fontSize' = n
    /\ lastEvent' = "step"
    /\ UNCHANGED <<url, loading, error, newsData, selectedGradient,
                   pending, reads, clock, heroSrc, mounted>>

\* downloadCard; toPng resolves (ok) or rejects               App.tsx:111-123
downloadCard(ok) ==
    /\ mounted
    /\ lastEvent' = IF ok THEN "downloaded" ELSE "downloadErrorLogged"
    /\ UNCHANGED <<url, loading, error, newsData, selectedGradient, fontSize,
                   pending, reads, clock, heroSrc, mounted>>

\* mutant: onError stores the placeholder in newsData
HeroImgErrorWritesState ==
    /\ mounted
    /\ Truthy(heroSrc)
    /\ heroSrc' = ErrorImage
    /\ newsData' = [newsData EXCEPT !.imageUrl = ErrorImage]
    /\ lastEvent' = "heroError"
    /\ UNCHANGED <<url, loading, error, selectedGradient, fontSize,
                   pending, reads, clock, mounted>>

\* onError of the hero <img>                                  App.tsx:308-310
HeroImgError ==
    /\ mounted
    /\ Truthy(heroSrc)
    /\ heroSrc' = ErrorImage
    /\ lastEvent' = "heroError"
    /\ UNCHANGED <<url, loading, error, newsData, selectedGradient, fontSize,
                   pending, reads, clock, mounted>>

\* the logo <img> fails to load; it has no onError            App.tsx:293
LogoImgError ==
    /\ mounted
    /\ Truthy(newsData.logoUrl)
    /\ lastEvent' = "logoError"
    /\ UNCHANGED <<url, loading, error, newsData, selectedGradient, fontSize,
                   pending, reads, clock, heroSrc, mounted>>

---------------------------------------------------------------------------
(* Specifications *)

\* the extraction flow and every writer of newsData
Next ==
    \/ \E u \in Urls : SetUrl(u)
    \/ ClickGenerate
    \/ \E i \in 1..Len(pending), r \in Replies : ProviderSettles(i, r)
    \/ \E i \in 1..Len(pending) : ContinueExtraction(i)
    \/ \E f \in ManualFields, text \in EditTexts : ManualEdit(f, text)
    \/ \E field \in FileFields, hasFile \in BOOLEAN : handleFileChange(field, hasFile)
    \/ \E i \in 1..Len(reads), result \in ReadResults : onloadend(i, result)
    \/ Tick

Spec == Init /\ [][Next]_vars

\* the whole surface of the component, over fewer inputs
UiReplies == {Rejected, TextMalformed, TextObject(ObjWith(Fields4)), TextObject(ObjWith({}))}
UiGradients == {2, 5}

NextUI ==
    \/ \E u \in Urls : SetUrl(u)
    \/ ClickGenerate
    \/ \E i \in 1..Len(pending), r \in UiReplies : ProviderSettles(i, r)
    \/ \E i \in 1..Len(pending) : ContinueExtraction(i)
    \/ \E text \in EditTexts : ManualEdit("title", text)
    \/ \E field \in FileFields, hasFile \in BOOLEAN : handleFileChange(field, hasFile)
    \/ \E i \in 1..Len(reads), result \in ReadResults : onloadend(i, result)
    \/ \E g \in UiGradients : SelectGradient(g)
    \/ \E n \in FontInputs : SetFontSize(n)
    \/ \E ok \in BOOLEAN : downloadCard(ok)
    \/ HeroImgError
    \/ LogoImgError

SpecUI == Init /\ [][NextUI]_vars

---------------------------------------------------------------------------
(* Properties *)

\* the step is the continuation of request i (lines 95-108 ran for it)
Continues(i) == pending[i].reply # NoReply /\ pending' = RemoveAt(pending, i)

\* the request failed, or its response is not JSON
FailedReply(r) == r.kind = "rejected" \/ (r.kind = "text" /\ r.form = "malformed")

\* what JSON.parse returns for a reply that parses
DataOf(r) == IF r.form = "object" THEN r.obj ELSE ObjWith({})

\* C1: an extraction attempt that fails in the request or in the parse of
\* the response writes no field of newsData and sets the error message.
C1_FailureAtomic ==
    [][\A i \in 1..Len(pending) :
         (Continues(i) /\ FailedReply(pending[i].reply))
            => (newsData' = newsData /\ error' = ExtractError)]_vars

\* a failed attempt has completed after newsData had been edited
C1_Witness ==
    /\ mounted /\ pending = <<>> /\ ~loading
    /\ error = ExtractError
    /\ newsData.title = Str("edited")

\* C2: after the continuation of a parsed response each of title, imageUrl,
\* date, source holds the response value when that is non-empty, else its
\* fallback; source falls back to the hostname of the submitted URL.
C2_Reconciled ==
    [][\A i \in 1..Len(pending) :
         (Continues(i) /\ ~FailedReply(pending[i].reply))
            => LET data == DataOf(pending[i].reply)
                   u == pending[i].url
               IN /\ \A f \in Fields4 : Truthy(data[f]) => newsData'[f] = data[f]
                  /\ ~Truthy(data.title) => newsData'.title = TitleNotFound
                  /\ ~Truthy(data.imageUrl) => newsData'.imageUrl = PlaceholderImage
                  /\ ~Truthy(data.date) => newsData'.date = toLocaleDateString(clock)
                  /\ ~Truthy(data.source)
                        => (URLParses(u) /\ newsData'.source = hostname(u))]_vars

\* C3: at most one request is in flight, a request is issued only while
\* loading is false, and a click on generate while loading issues none.
C3_SingleFlight ==
    /\ [](Len(pending) <= 1)
    /\ [][Len(pending') > Len(pending) => (~loading /\ pending = <<>>)]_vars
    /\ [][(loading /\ lastEvent' = "generateClick") => pending' = pending]_vars

\* generate was clicked while a settled request waited for its continuation
C3_Witness ==
    /\ loading /\ Len(pending) = 1
    /\ pending[1].reply # NoReply
    /\ lastEvent = "generateClick"

\* C4: loading is true exactly while a request is in flight, so it is false
\* again once the request has completed, whatever its outcome.
C4_LoadingIffInFlight == loading <=> (pending # <<>>)

\* C5: no exception leaves the handler: no render throws, whatever the
\* submitted URL and the provider's answer.
C5_NothingEscapes == mounted

\* C6: each of the five fields of newsData holds a string.
C6_AllStrings == \A f \in DOMAIN newsData : IsString(newsData[f])

\* C7 as stated: while a request is in flight nothing but its own
\* continuation writes newsData.
C7_NoWriteInFlight ==
    [][(pending # <<>> /\ newsData' # newsData)
         => \E i \in 1..Len(pending) : Continues(i)]_vars

\* the values a successful extraction can give field f for submitted URL u
ResultValues(f, u) ==
    {RespValues[f]} \cup
        CASE f = "title" -> {TitleNotFound}
          [] f = "imageUrl" -> {PlaceholderImage}
          [] f = "date" -> {toLocaleDateString(clock)}
          [] f = "source" -> {hostname(u)}

\* C7 as amended: a continuation that writes newsData keeps logoUrl from the
\* latest state and sets title, imageUrl, date and source to values that do
\* not depend on what they held, edited in flight or not.
C7_SuccessOverwrites ==
    [][\A i \in 1..Len(pending) :
         (Continues(i) /\ mounted' /\ ~FailedReply(pending[i].reply))
            => /\ newsData'.logoUrl = newsData.logoUrl
               /\ \A f \in Fields4 : newsData'[f] \in ResultValues(f, pending[i].url)]_vars

\* a response overwrote the title while an uploaded logo was in place
C7_Witness ==
    /\ mounted /\ pending = <<>> /\ ~loading /\ error = Null
    /\ newsData.title = RespValues.title
    /\ newsData.logoUrl = DataUri

\* C8 as stated: after a load failure of the hero image or of the logo image
\* the display shows the placeholder.
C8_BothSubstituted ==
    /\ lastEvent = "heroError" => heroSrc = ErrorImage
    /\ lastEvent = "logoError" => LogoShown = LogoGlyph

\* C8 as amended: a hero load failure puts the placeholder in the DOM, a
\* logo load failure leaves the failing image displayed, and neither changes
\* newsData, loading or error.
C8_DisplayOnly ==
    [][/\ lastEvent' = "heroError"
            => (heroSrc' = ErrorImage /\ UNCHANGED <<newsData, loading, error>>)
       /\ lastEvent' = "logoError"
            => (/\ LogoShown' = [kind |-> "img", src |-> newsData.logoUrl]
                /\ UNCHANGED <<newsData, loading, error, heroSrc>>)]_vars

\* both failures happened: the hero shows the placeholder over an extracted
\* image, the logo failed last
C8_Witness ==
    /\ lastEvent = "logoError"
    /\ heroSrc = ErrorImage
    /\ newsData.imageUrl = RespValues.imageUrl
    /\ newsData.logoUrl = DataUri

\* C9: a click on generate with an empty URL issues no request and leaves
\* newsData, loading and error as they were.
C9_EmptyUrlNoOp ==
    [][(url = <<>> /\ lastEvent' = "generateClick")
         => UNCHANGED <<newsData, loading, error, pending>>]_vars

\* generate was clicked with an empty URL while an error was displayed
C9_Witness ==
    /\ url = <<>>
    /\ lastEvent = "generateClick"
    /\ error = ExtractError

\* C10: error is null while loading; only the start of an extraction clears
\* it and only a failed attempt sets it; a successful one leaves it null.
C10_ErrorLifecycle ==
    /\ [](loading => error = Null)
    /\ [][error' # error
           => \/ (Len(pending') > Len(pending) /\ error' = Null)
              \/ \E i \in 1..Len(pending) :
                    /\ Continues(i) /\ FailedReply(pending[i].reply)
                    /\ error' = ExtractError]_vars
    /\ [][\A i \in 1..Len(pending) :
            (Continues(i) /\ ~FailedReply(pending[i].reply)) => error' = Null]_vars

\* an error stayed displayed across a theme change, an upload and an export
C10_Witness ==
    /\ error = ExtractError
    /\ selectedGradient # GRADIENTS[1]
    /\ newsData.logoUrl = DataUri
    /\ lastEvent = "downloadErrorLogged"

====
